---- MODULE Spec2Model ----
(***************************************************************************)
(* dconf-manager: reconciliation of INI-described desired state against a  *)
(* dump of the live dconf store (src/dconf_manager.py).                    *)
(*                                                                         *)
(* Strings are sequences of character codes, so that str.split, str        *)
(* comparison (sorted), str.startswith and posixpath.join are computed     *)
(* the way Python computes them.                                           *)
(***************************************************************************)
EXTENDS Integers, Sequences, FiniteSets, TLC

VARIABLES
    apply,              \* args.apply
    root,               \* args.root
    show_ignored,       \* args.show_ignored
    dconf_config,       \* parsed `dconf dump` output (sections after DEFAULT, in file order)
    desired_config,     \* parsed INI files        (sections after DEFAULT, in file order)
    managed_sections,   \* HierarchicalSet
    excluded_sections,  \* HierarchicalSet
    sections_union,     \* sorted list of section names
    ci,                 \* number of add calls made (SpecHS)
    si,                 \* position of `for section in sections_union` (line 173)
    pc,                 \* where main is
    trace,              \* print / dconf_write / dconf_reset calls, in call order
    added               \* history: the paths handed to add so far (SpecHS)

vars == << apply, root, show_ignored, dconf_config, desired_config, managed_sections,
           excluded_sections, sections_union, ci, si, pc, trace, added >>

-----------------------------------------------------------------------------
(* Bounds of the model *)

MaxLines    == 3    \* header and option lines per configuration
MaxPathLen  == 2    \* longest path added to a HierarchicalSet in SpecHS
MaxAdds     == 4    \* number of HierarchicalSet.add calls in SpecHS

-----------------------------------------------------------------------------
(* Python str operations on sequences of character codes *)

SLASH == 47     \* "/"
DASH  == 45     \* "-"

\* "DEFAULT", configparser's default_section, a key of every ConfigParser
DEFAULTSECT == << 68, 69, 70, 65, 85, 76, 84 >>

\* str.startswith("-")
StartsWithDash(s) == Len(s) > 0 /\ s[1] = DASH

\* a < b for Python str: lexicographic by code point
RECURSIVE StrLess(_, _)
StrLess(a, b) ==
    IF Len(b) = 0 THEN FALSE
    ELSE IF Len(a) = 0 THEN TRUE
    ELSE IF a[1] # b[1] THEN a[1] < b[1]
    ELSE StrLess(Tail(a), Tail(b))

\* sorted(S) for a set of str
RECURSIVE sorted(_)
sorted(S) ==
    IF S = {} THEN << >>
    ELSE LET m == CHOOSE x \in S : \A y \in S \ {x} : StrLess(x, y)
         IN  << m >> \o sorted(S \ {m})

\* s.split("/"): always at least one part; "" gives [""]
RECURSIVE split(_)
split(s) ==
    IF \A k \in 1..Len(s) : s[k] # SLASH THEN << s >>
    ELSE LET k == CHOOSE j \in 1..Len(s) :
                      s[j] = SLASH /\ \A h \in 1..(j - 1) : s[h] # SLASH
         IN  << SubSeq(s, 1, k - 1) >> \o split(SubSeq(s, k + 1, Len(s)))

\* posixpath.join(a, b)
PosixJoin2(a, b) ==
    IF Len(b) > 0 /\ b[1] = SLASH THEN b
    ELSE IF Len(a) = 0 \/ a[Len(a)] = SLASH THEN a \o b
    ELSE a \o << SLASH >> \o b

\* posixpath.join(a, b, c)
PosixJoin3(a, b, c) == PosixJoin2(PosixJoin2(a, b), c)

EQUALS == 61    \* "="

format_kv(section, option, value) ==
    PosixJoin2(section, option) \o << EQUALS >> \o value

-----------------------------------------------------------------------------
(* HierarchicalSet.  A tree is the set of the paths of its nodes (the root  *)
(* is << >>) and the set of the nodes whose _children is None.             *)

IsPrefix(q, p) == Len(q) <= Len(p) /\ SubSeq(p, 1, Len(q)) = q
IsStrictPrefix(q, p) == Len(q) < Len(p) /\ IsPrefix(q, p)

\* HierarchicalSet(): one node, _children = {}
EmptyHS == [nodes |-> { << >> }, none |-> {}]

RECURSIVE HS_add(_, _, _)
HS_add(hs, path, i) ==
    LET node == SubSeq(path, 1, i) IN
    IF node \notin hs.none
    THEN IF i < Len(path)
         THEN LET child == SubSeq(path, 1, i + 1)
                  hs1   == IF child \notin hs.nodes
                           THEN [hs EXCEPT !.nodes = @ \cup {child}]
                           ELSE hs
              IN  HS_add(hs1, path, i + 1)
         ELSE \* self._children = None: the children are dropped
              [nodes |-> {n \in hs.nodes : ~IsStrictPrefix(node, n)},
               none  |-> {n \in hs.none : ~IsStrictPrefix(node, n)} \cup {node}]
    ELSE hs

add(hs, path) == HS_add(hs, path, 0)

\* mutation: `else: return True` when the path ends on an inner node
HS_contains_inner(hs, path, i) ==
    \/ \E m \in hs.none : IsPrefix(m, path)
    \/ path \in hs.nodes

RECURSIVE HS_contains(_, _, _)
HS_contains(hs, path, i) ==
    LET node == SubSeq(path, 1, i) IN
    IF node \in hs.none THEN TRUE
    ELSE IF i < Len(path)
         THEN IF SubSeq(path, 1, i + 1) \in hs.nodes
              THEN HS_contains(hs, path, i + 1)
              ELSE FALSE
         ELSE node \in hs.none

contains(hs, path) == HS_contains(hs, path, 0)

-----------------------------------------------------------------------------
(* configparser.ConfigParser: a list of sections in file order, each a     *)
(* name and a list of (option, value) in file order.  DEFAULT is always a  *)
(* key and is empty here (neither `dconf dump` nor the INI files of the    *)
(* model carry a [DEFAULT] header).                                        *)

Names(cfg) == [k \in 1..Len(cfg) |-> cfg[k].name]

\* cfg.keys(): DEFAULT first, then the sections in file order
keys(cfg) == << DEFAULTSECT >> \o Names(cfg)

Range(f) == {f[k] : k \in DOMAIN f}

\* `section in cfg`
has(cfg, section) ==
    section = DEFAULTSECT \/ \E k \in 1..Len(cfg) : cfg[k].name = section

\* cfg[section].items(), for a section that is in cfg
items(cfg, section) ==
    IF section = DEFAULTSECT THEN << >>
    ELSE cfg[CHOOSE k \in 1..Len(cfg) : cfg[k].name = section].options

\* the option names of an items() list
optkeys(its) == {kv[1] : kv \in Range(its)}

\* its[option], for an option that is there
get(its, option) == its[CHOOSE k \in 1..Len(its) : its[k][1] = option][2]

-----------------------------------------------------------------------------
(* The calls main makes that leave the process: print, dconf write, dconf  *)
(* reset (rc is the exit status of the subprocess).  A run r is the calls  *)
(* made so far, the exception that ended it ("" for none) and the number   *)
(* of store calls that succeed before one fails (budget).                  *)

Line(mark, text) ==
    [op |-> "print", mark |-> mark, text |-> text, value |-> << >>, rc |-> 0]
WriteCall(key, value, rc) ==
    [op |-> "dconf_write", mark |-> "", text |-> key, value |-> value, rc |-> rc]
ResetCall(key, rc) ==
    [op |-> "dconf_reset", mark |-> "", text |-> key, value |-> << >>, rc |-> rc]

print(r, mark, text) == [r EXCEPT !.trace = Append(@, Line(mark, text))]

\* subprocess.check_call(["dconf", "write", key, value]): raises on a non-zero exit
dconf_write(r, key, value) ==
    IF r.budget = 0
    THEN [r EXCEPT !.trace = Append(@, WriteCall(key, value, 1)),
                   !.raised = "CalledProcessError"]
    ELSE [r EXCEPT !.trace = Append(@, WriteCall(key, value, 0)), !.budget = @ - 1]

\* subprocess.check_call(["dconf", "reset", key])
dconf_reset(r, key) ==
    IF r.budget = 0
    THEN [r EXCEPT !.trace = Append(@, ResetCall(key, 1)),
                   !.raised = "CalledProcessError"]
    ELSE [r EXCEPT !.trace = Append(@, ResetCall(key, 0)), !.budget = @ - 1]

\* mutation: the write is dispatched whatever `apply` says
write_always(r, root_, section, option, value, apply_) ==
    dconf_write(print(r, "ADD", format_kv(section, option, value)),
                PosixJoin3(root_, section, option), value)

write(r, root_, section, option, value, apply_) ==
    LET key == PosixJoin3(root_, section, option)
        r1  == print(r, "ADD", format_kv(section, option, value))
    IN  IF apply_ THEN dconf_write(r1, key, value) ELSE r1

\* mutation: the reset is printed and never dispatched
reset_never(r, root_, section, option, value, apply_) ==
    print(r, "REMOVE", format_kv(section, option, value))

reset(r, root_, section, option, value, apply_) ==
    LET key == PosixJoin3(root_, section, option)
        r1  == print(r, "REMOVE", format_kv(section, option, value))
    IN  IF apply_ THEN dconf_reset(r1, key) ELSE r1

-----------------------------------------------------------------------------
(* main, lines 160-206 *)

\* lines 162-166, for the keys of desired_config from position k on
RECURSIVE route(_, _, _)
route(sets, ks, k) ==
    IF k > Len(ks) THEN sets
    ELSE LET section == ks[k] IN
         IF StartsWithDash(section)
         THEN route([sets EXCEPT !.excluded = add(@, split(Tail(section)))], ks, k + 1)
         ELSE route([sets EXCEPT !.managed = add(@, split(section))], ks, k + 1)

\* lines 168-171
union_of(dconf, desired) ==
    sorted(Range(keys(dconf)) \cup {k \in Range(keys(desired)) : ~StartsWithDash(k)})

\* mutation: a managed rule wins over an exclusion
not_managed_weak(excluded, managed, section) ==
    ~contains(managed, split(section))

\* line 175
not_managed(excluded, managed, section) ==
    LET section_parts == split(section)
    IN  contains(excluded, section_parts) \/ ~contains(managed, section_parts)

\* mutation: only the first live option is reported
ignored_loop_first(r, section, its, k) ==
    IF Len(its) = 0 THEN r
    ELSE print(r, "IGNORED", format_kv(section, its[1][1], its[1][2]))

\* lines 178-179, from position k of dconf_config[section].items() on
RECURSIVE ignored_loop(_, _, _, _)
ignored_loop(r, section, its, k) ==
    IF k > Len(its) THEN r
    ELSE ignored_loop(print(r, "IGNORED", format_kv(section, its[k][1], its[k][2])),
                      section, its, k + 1)

\* lines 182-183, from position k of desired_config[section].items() on
RECURSIVE new_loop(_, _, _, _, _, _)
new_loop(r, root_, section, its, k, apply_) ==
    IF k > Len(its) \/ r.raised # "" THEN r
    ELSE new_loop(write(r, root_, section, its[k][1], its[k][2], apply_),
                  root_, section, its, k + 1, apply_)

\* lines 189-193
desired_section_of(desired, section) ==
    IF has(desired, section) THEN items(desired, section) ELSE << >>

\* mutation: the diagnostic reset of a changed option follows `apply`
diff_option_applied(r, root_, section, dconf_section, desired_section, option, apply_) ==
    IF option \notin optkeys(dconf_section)
    THEN write(r, root_, section, option, get(desired_section, option), apply_)
    ELSE IF option \notin optkeys(desired_section)
    THEN reset(r, root_, section, option, get(dconf_section, option), apply_)
    ELSE IF get(dconf_section, option) # get(desired_section, option)
    THEN LET r1 == reset(r, root_, section, option, get(dconf_section, option), apply_)
         IN  IF r1.raised # "" THEN r1
             ELSE write(r1, root_, section, option, get(desired_section, option), apply_)
    ELSE r

\* mutation: an option whose value is already the desired one is rewritten
diff_option_rewrite(r, root_, section, dconf_section, desired_section, option, apply_) ==
    IF option \notin optkeys(dconf_section)
    THEN write(r, root_, section, option, get(desired_section, option), apply_)
    ELSE IF option \notin optkeys(desired_section)
    THEN reset(r, root_, section, option, get(dconf_section, option), apply_)
    ELSE write(reset(r, root_, section, option, get(dconf_section, option), FALSE),
               root_, section, option, get(desired_section, option), apply_)

\* lines 197-206: one option of a section that is live and managed
diff_option(r, root_, section, dconf_section, desired_section, option, apply_) ==
    IF option \notin optkeys(dconf_section)
    THEN write(r, root_, section, option, get(desired_section, option), apply_)
    ELSE IF option \notin optkeys(desired_section)
    THEN reset(r, root_, section, option, get(dconf_section, option), apply_)
    ELSE IF get(dconf_section, option) # get(desired_section, option)
    THEN write(reset(r, root_, section, option, get(dconf_section, option), FALSE),
               root_, section, option, get(desired_section, option), apply_)
    ELSE r

\* mutation: a failed store call is swallowed and the loop goes on
RECURSIVE diff_loop_swallow(_, _, _, _, _, _, _, _)
diff_loop_swallow(r, root_, section, dconf_section, desired_section, opts, k, apply_) ==
    IF k > Len(opts) THEN r
    ELSE diff_loop_swallow(diff_option(r, root_, section, dconf_section, desired_section,
                                       opts[k], apply_),
                           root_, section, dconf_section, desired_section, opts, k + 1, apply_)

\* lines 194-206, from position k of the sorted option names on
RECURSIVE diff_loop(_, _, _, _, _, _, _, _)
diff_loop(r, root_, section, dconf_section, desired_section, opts, k, apply_) ==
    IF k > Len(opts) \/ r.raised # "" THEN r
    ELSE diff_loop(diff_option(r, root_, section, dconf_section, desired_section,
                               opts[k], apply_),
                   root_, section, dconf_section, desired_section, opts, k + 1, apply_)

\* lines 174-206: one iteration of `for section in sections_union`
section_step(r, args, dconf, desired, excluded, managed, section) ==
    IF not_managed(excluded, managed, section)
    THEN IF args.show_ignored
         THEN IF has(dconf, section)
              THEN ignored_loop(r, section, items(dconf, section), 1)
              ELSE [r EXCEPT !.raised = "KeyError"]     \* dconf_config[section]
         ELSE r
    ELSE IF ~has(dconf, section)
    THEN new_loop(r, args.root, section, items(desired, section), 1, args.apply)
    ELSE LET dconf_section   == items(dconf, section)
             desired_section == desired_section_of(desired, section)
             opts == sorted(optkeys(dconf_section) \cup optkeys(desired_section))
         IN  diff_loop(r, args.root, section, dconf_section, desired_section,
                       opts, 1, args.apply)

\* lines 173-206, from position k of sections_union on
RECURSIVE main_loop(_, _, _, _, _, _, _, _)
main_loop(r, args, dconf, desired, excluded, managed, union, k) ==
    IF k > Len(union) \/ r.raised # "" THEN r
    ELSE main_loop(section_step(r, args, dconf, desired, excluded, managed, union[k]),
                   args, dconf, desired, excluded, managed, union, k + 1)

-----------------------------------------------------------------------------
(* The inputs: every pair of configurations within the bounds.  main only  *)
(* compares a live value with the desired one and copies values to lines,  *)
(* so the dump carries one value and the desired state two.                *)

SectionNames   == { << 97 >>, << 97, 47, 98 >> }               \* "a", "a/b"
ExclusionNames == { << 45, 97 >>, << 45, 97, 47, 98 >> }       \* "-a", "-a/b"
OptionNames    == { << 120 >>, << 121 >> }                     \* "x", "y"
Values         == { << 49 >>, << 50 >> }                       \* "1", "2": desired values
LiveValues     == { << 49 >> }                                 \* "1": values of the dump
Roots          == { << 47, 114 >> }                            \* "/r"

\* the lists of at most n elements of S, without repetition
RECURSIVE ListsOf(_, _)
ListsOf(S, n) ==
    IF n = 0 THEN { << >> }
    ELSE LET shorter == ListsOf(S, n - 1)
         IN  shorter \cup
             { Append(z[1], z[2]) :
                 z \in { y \in shorter \X S :
                           Len(y[1]) = n - 1 /\ y[2] \notin Range(y[1]) } }

\* the items() lists of at most n options
RECURSIVE ItemLists(_, _)
ItemLists(values, n) ==
    IF n = 0 THEN { << >> }
    ELSE LET shorter == ItemLists(values, n - 1)
         IN  shorter \cup
             { Append(z[1], z[2]) :
                 z \in { y \in shorter \X (OptionNames \X values) :
                           Len(y[1]) = n - 1 /\ y[2][1] \notin optkeys(y[1]) } }

RECURSIVE TotalOptions(_, _)
TotalOptions(f, n) == IF n = 0 THEN 0 ELSE Len(f[n]) + TotalOptions(f, n - 1)

\* the configurations of at most MaxLines lines whose headers are drawn from
\* names; the options under an exclusion header are never read and are left out
Configs(names, values) ==
    UNION { { [k \in 1..Len(h) |-> [name |-> h[k], options |-> f[k]]] :
                f \in { g \in [1..Len(h) -> ItemLists(values, MaxLines - Len(h))] :
                          /\ Len(h) + TotalOptions(g, Len(h)) <= MaxLines
                          /\ \A k \in 1..Len(h) : StartsWithDash(h[k]) => g[k] = << >> } } :
            h \in ListsOf(names, MaxLines) }

DconfConfigs   == Configs(SectionNames, LiveValues)
DesiredConfigs == Configs(SectionNames \cup ExclusionNames, Values)

\* more store calls than a run can make
Unfailing == 2 * MaxLines

-----------------------------------------------------------------------------
(* main as a state machine: the set-up of lines 136-171, then one step per *)
(* iteration of the loop of line 173.                                      *)

Init ==
    /\ apply \in BOOLEAN
    /\ show_ignored \in BOOLEAN
    /\ root \in Roots
    /\ dconf_config \in DconfConfigs
    /\ desired_config \in DesiredConfigs
    /\ managed_sections = EmptyHS
    /\ excluded_sections = EmptyHS
    /\ sections_union = << >>
    /\ ci = 0
    /\ si = 0
    /\ pc = "classify"
    /\ trace = << >>
    /\ added = {}

Args == [apply |-> apply, show_ignored |-> show_ignored, root |-> root]

\* lines 160-171
Classify ==
    /\ pc = "classify"
    /\ LET sets == route([managed |-> managed_sections, excluded |-> excluded_sections],
                         keys(desired_config), 1)
       IN  /\ managed_sections' = sets.managed
           /\ excluded_sections' = sets.excluded
    /\ sections_union' = union_of(dconf_config, desired_config)
    /\ si' = 1
    /\ pc' = "loop"
    /\ UNCHANGED << apply, root, show_ignored, dconf_config, desired_config, ci, trace, added >>

\* the numbers of store calls that may succeed before one fails, in an
\* iteration that makes at most one store call per option of the section
StoreOutcomes(section) ==
    IF apply
    THEN 0..Cardinality(
             (IF has(dconf_config, section)
              THEN optkeys(items(dconf_config, section)) ELSE {}) \cup
             optkeys(desired_section_of(desired_config, section)))
    ELSE {0}

\* lines 173-206: one iteration; the store may fail any of its calls
Section ==
    /\ pc = "loop" /\ si <= Len(sections_union)
    /\ \E ok \in StoreOutcomes(sections_union[si]) :
         LET r == section_step([trace |-> trace, raised |-> "", budget |-> ok], Args,
                               dconf_config, desired_config, excluded_sections,
                               managed_sections, sections_union[si])
         IN  /\ trace' = r.trace
             /\ IF r.raised # ""
                THEN pc' = r.raised /\ si' = si
                ELSE pc' = "loop" /\ si' = si + 1
    /\ UNCHANGED << apply, root, show_ignored, dconf_config, desired_config,
                    managed_sections, excluded_sections, sections_union, ci, added >>

\* the loop of line 173 is exhausted: main returns
Return ==
    /\ pc = "loop" /\ si > Len(sections_union)
    /\ pc' = "done"
    /\ UNCHANGED << apply, root, show_ignored, dconf_config, desired_config,
                    managed_sections, excluded_sections, sections_union, ci, si, trace, added >>

Next == Classify \/ Section \/ Return

Spec == Init /\ [][Next]_vars

-----------------------------------------------------------------------------
(* HierarchicalSet on its own: any sequence of add calls, on paths of small *)
(* integers as in test_hierarchical_set.                                   *)

Tokens == {1, 2}

RECURSIVE PathsUpTo(_)
PathsUpTo(n) ==
    IF n = 0 THEN { << >> }
    ELSE LET shorter == PathsUpTo(n - 1)
         IN  shorter \cup { Append(z[1], z[2]) :
                              z \in { y \in shorter \X Tokens : Len(y[1]) = n - 1 } }

HSInit ==
    /\ managed_sections = EmptyHS
    /\ added = {}
    /\ ci = 0
    /\ pc = "hs"
    /\ apply = FALSE /\ show_ignored = FALSE /\ root = << >>
    /\ dconf_config = << >> /\ desired_config = << >>
    /\ excluded_sections = EmptyHS
    /\ sections_union = << >> /\ si = 0 /\ trace = << >>

HSAdd ==
    /\ pc = "hs" /\ ci < MaxAdds
    /\ \E path \in PathsUpTo(MaxPathLen) :
         /\ managed_sections' = add(managed_sections, path)
         /\ added' = added \cup {path}
    /\ ci' = ci + 1
    /\ UNCHANGED << apply, root, show_ignored, dconf_config, desired_config,
                    excluded_sections, sections_union, si, pc, trace >>

HSNext == HSAdd

SpecHS == HSInit /\ [][HSNext]_vars

-----------------------------------------------------------------------------
(* Vocabulary of the properties.  The rules are read off the headers of    *)
(* the desired configuration, not off the HierarchicalSets main builds.    *)

Headers == Range(keys(desired_config))

\* some non-exclusion header is a prefix of the section's path
RuleManaged(section) ==
    \E h \in Headers : ~StartsWithDash(h) /\ IsPrefix(split(h), split(section))

\* some exclusion header, marker stripped, is a prefix of the section's path
RuleExcluded(section) ==
    \E h \in Headers : StartsWithDash(h) /\ IsPrefix(split(Tail(h)), split(section))

Managed(section) == RuleManaged(section) /\ ~RuleExcluded(section)

Sections == Range(sections_union)

\* the loop of line 173 has finished the iteration of this section
Processed(section) ==
    \E k \in 1..Len(sections_union) : sections_union[k] = section /\ k < si

IsChange(e) == e.op # "print" \/ e.mark \in {"ADD", "REMOVE"}

\* the call is about this option of this section
AboutOption(e, section, option) ==
    IF e.op = "print"
    THEN \E v \in Values : e.text = format_kv(section, option, v)
    ELSE e.text = PosixJoin3(root, section, option)

AboutSection(e, section) == \E o \in OptionNames : AboutOption(e, section, o)

CallsOfOption(section, option) ==
    LET About(e) == AboutOption(e, section, option) IN SelectSeq(trace, About)

CallsOfSection(section) ==
    LET About(e) == AboutSection(e, section) IN SelectSeq(trace, About)

ChangeLines(t) ==
    LET Change(e) == e.op = "print" /\ e.mark \in {"ADD", "REMOVE"} IN SelectSeq(t, Change)

LiveSection(section) == IF has(dconf_config, section) THEN items(dconf_config, section) ELSE << >>

\* options of a managed live section whose live and desired values differ
Changed(section) ==
    {o \in optkeys(LiveSection(section)) \cap optkeys(desired_section_of(desired_config, section)) :
        get(LiveSection(section), o) # get(desired_section_of(desired_config, section), o)}

\* options of a managed live section that the desired state does not have
Orphans(section) ==
    optkeys(LiveSection(section)) \ optkeys(desired_section_of(desired_config, section))

-----------------------------------------------------------------------------
(* C1: without --apply main makes no dconf write and no dconf reset call,  *)
(* and once it has ended it has printed the Write/Reset lines that the run *)
(* with --apply on the same inputs prints when no store call fails.        *)
C1_DryRun ==
    ~apply =>
        /\ \A k \in 1..Len(trace) : trace[k].op = "print"
        /\ pc \in {"done", "KeyError"} =>
             ChangeLines(trace) =
             ChangeLines(main_loop([trace |-> << >>, raised |-> "", budget |-> Unfailing],
                                   [Args EXCEPT !.apply = TRUE], dconf_config, desired_config,
                                   excluded_sections, managed_sections,
                                   sections_union, 1).trace)

C1_Witness ==
    /\ ~apply /\ pc = "done"
    /\ \E j, k \in 1..Len(trace) : trace[j].mark = "ADD" /\ trace[k].mark = "REMOVE"

(* C2: once the loop has passed a managed live section, each of its        *)
(* options whose live and desired values differ has exactly these calls:   *)
(* the Reset line with the live value, next to it the Write line with the  *)
(* desired value and, with --apply, the dconf write; never a dconf reset.  *)
C2_ChangedOption ==
    \A S \in Sections :
        (Processed(S) /\ Managed(S) /\ has(dconf_config, S)) =>
            \A o \in Changed(S) :
                LET was == Line("REMOVE", format_kv(S, o, get(LiveSection(S), o)))
                    new == get(desired_section_of(desired_config, S), o)
                    now == Line("ADD", format_kv(S, o, new))
                    put == WriteCall(PosixJoin3(root, S, o), new, 0)
                IN  /\ CallsOfOption(S, o) =
                         IF apply THEN << was, now, put >> ELSE << was, now >>
                    /\ \E k \in 1..(Len(trace) - 1) : trace[k] = was /\ trace[k + 1] = now
                    /\ apply => \E k \in 1..(Len(trace) - 2) :
                                    trace[k + 1] = now /\ trace[k + 2] = put

C2_Witness ==
    /\ apply
    /\ \E S \in Sections : Processed(S) /\ Managed(S) /\ has(dconf_config, S)
                           /\ Changed(S) # {}

(* C3: no Write line, Reset line or store call is ever made for a section  *)
(* whose path has a prefix among the exclusion rules, whatever the managed *)
(* rules are.                                                              *)
C3_ExclusionWins ==
    \A S \in Sections :
        RuleExcluded(S) =>
            \A k \in 1..Len(trace) : ~(AboutSection(trace[k], S) /\ IsChange(trace[k]))

\* a section listed in the desired state with options, excluded by a rule
\* on a strict ancestor, in a finished run with --apply
C3_Witness ==
    /\ apply /\ pc = "done"
    /\ \E S \in Sections :
          /\ has(desired_config, S) /\ Len(items(desired_config, S)) > 0
          /\ \E h \in Headers : StartsWithDash(h)
                                /\ IsStrictPrefix(split(Tail(h)), split(S))

C6_NeverRaises == pc # "KeyError"

\* sections of cfg by name, options by option name
RECURSIVE ByOption(_, _)
ByOption(its, names) ==
    IF Len(names) = 0 THEN << >>
    ELSE << << names[1], get(its, names[1]) >> >> \o ByOption(its, Tail(names))

Sorted(cfg) ==
    LET names == sorted(Range(Names(cfg)))
    IN  [k \in 1..Len(names) |->
            [name |-> names[k],
             options |-> ByOption(items(cfg, names[k]),
                                  sorted(optkeys(items(cfg, names[k]))))]]

\* the section and option a printed line is about
LineKey(e) ==
    CHOOSE so \in Sections \X OptionNames : AboutOption(e, so[1], so[2])

KeyLeq(a, b) ==
    IF a[1] = b[1] THEN ~StrLess(b[2], a[2]) ELSE StrLess(a[1], b[1])

(* C7: a finished run has printed what the run on the same mappings listed *)
(* in sorted order prints, and its lines are in order of section name and, *)
(* inside a section, of option name.                                       *)
C7_OrderFree ==
    pc = "done" =>
        /\ LET sets == route([managed |-> EmptyHS, excluded |-> EmptyHS],
                             keys(Sorted(desired_config)), 1)
           IN  trace = main_loop([trace |-> << >>, raised |-> "", budget |-> Unfailing],
                                 Args, Sorted(dconf_config), Sorted(desired_config),
                                 sets.excluded, sets.managed,
                                 union_of(Sorted(dconf_config), Sorted(desired_config)),
                                 1).trace
        /\ \A j, k \in 1..Len(trace) :
              (j < k /\ trace[j].op = "print" /\ trace[k].op = "print")
                  => KeyLeq(LineKey(trace[j]), LineKey(trace[k]))

\* the same sections with the same options and values on both sides
SameState ==
    /\ Range(Names(dconf_config)) = {h \in Range(Names(desired_config)) : ~StartsWithDash(h)}
    /\ \A S \in Range(Names(dconf_config)) :
          Range(items(dconf_config, S)) = Range(items(desired_config, S))

(* C8: when the live state is the desired state, main prints no Write and  *)
(* no Reset line and makes no store call.                                  *)
C8_Idempotent ==
    SameState => \A k \in 1..Len(trace) : ~IsChange(trace[k])

C8_Witness ==
    /\ SameState /\ pc = "done"
    /\ \E S \in Sections : Managed(S) /\ Len(LiveSection(S)) = 2

(* C9: once the loop has passed a managed live section, each live option   *)
(* the desired state does not have (all of them when the section is        *)
(* managed through an ancestor only) has exactly its Reset line with the   *)
(* live value and, with --apply, its dconf reset call; no Write.           *)
C9_Ownership ==
    \A S \in Sections :
        (Processed(S) /\ Managed(S) /\ has(dconf_config, S)) =>
            \A o \in Orphans(S) :
                LET was == Line("REMOVE", format_kv(S, o, get(LiveSection(S), o)))
                    del == ResetCall(PosixJoin3(root, S, o), 0)
                IN  CallsOfOption(S, o) = IF apply THEN << was, del >> ELSE << was >>

\* a live section with two options, managed through an ancestor only
C9_Witness ==
    /\ apply
    /\ \E S \in Sections : /\ Processed(S) /\ Managed(S)
                           /\ ~has(desired_config, S)
                           /\ Len(LiveSection(S)) = 2

\* the line of a store call is the call before it
C10_Rendered ==
    \A k \in 1..Len(trace) :
        trace[k].op # "print" =>
            /\ k > 1
            /\ \E S \in Sections, o \in OptionNames, v \in Values :
                  /\ trace[k].text = PosixJoin3(root, S, o)
                  /\ \/ /\ trace[k].op = "dconf_write" /\ trace[k].value = v
                        /\ trace[k - 1] = Line("ADD", format_kv(S, o, v))
                     \/ /\ trace[k].op = "dconf_reset"
                        /\ trace[k - 1] = Line("REMOVE", format_kv(S, o, v))

\* a failed store call is the last call of the run
C10_Aborted ==
    /\ \A k \in 1..Len(trace) :
          trace[k].rc # 0 => k = Len(trace) /\ pc = "CalledProcessError"
    /\ pc = "CalledProcessError" => Len(trace) > 0 /\ trace[Len(trace)].rc # 0

(* C10: with --apply every store call comes right after the line of its    *)
(* action, so calls and lines are in the same order; a failed store call   *)
(* is the last thing the run does; calls made are never taken back.        *)
C10_InSequence ==
    /\ [](C10_Rendered /\ C10_Aborted)
    /\ [][IsPrefix(trace, trace') /\ (pc = "CalledProcessError" => trace' = trace)]_vars

\* a run aborted by a store call after an earlier one succeeded, with an
\* option of a managed section left unhandled
C10_Witness ==
    /\ pc = "CalledProcessError"
    /\ Cardinality({k \in 1..Len(trace) : trace[k].op # "print"}) >= 2
    /\ \E S \in Sections, o \in OptionNames :
          /\ o \in optkeys(LiveSection(S)) \cup optkeys(desired_section_of(desired_config, S))
          /\ Managed(S)
          /\ CallsOfOption(S, o) = << >>

-----------------------------------------------------------------------------
(* C5: after any adds, a path is a member exactly when an added path is a  *)
(* prefix of it (itself included).                                         *)
C5_PrefixClosure ==
    \A P \in PathsUpTo(MaxPathLen + 1) :
        contains(managed_sections, P) <=> \E Q \in added : IsPrefix(Q, P)

\* a path and a longer one were added and the tree holds the shorter alone;
\* the strict prefixes of the shorter are no members
C5_Witness ==
    \E Q \in added, P \in added :
        /\ IsStrictPrefix(Q, P) /\ Len(Q) > 0
        /\ ~contains(managed_sections, SubSeq(Q, 1, Len(Q) - 1))
        /\ contains(managed_sections, P)
        /\ P \notin managed_sections.nodes

====
